---- MODULE Spec2Model ----
(***************************************************************************)
(* State-machine model of src/space.js (canvas space animation): the       *)
(* frame loop, visibility pause/resume, resize, the big-bang particle      *)
(* burst, the pooled meteors with their trails and the lightning bolts.    *)
(*                                                                         *)
(* Numbers.  JavaScript numbers are modelled by integers in fixed units:   *)
(*   time        1 ms                                                      *)
(*   position    1/1600000 px        (PX units per pixel)                  *)
(*   velocity    1/400 px/s          (VU units per px/s)                   *)
(* With integer millisecond timestamps and velocities that are multiples   *)
(* of 1/400 px/s every integration step of the code is exact in these      *)
(* units:  x += v*(dt/1000)*0.75  is  x += 3*v*dt,  the meteor gravity     *)
(* vy += 300*(dt/1000)*0.75 is vy += 90*dt and the particle gravity        *)
(* vy += 600*(dt/1000)*0.45*0.75 is vy += 81*dt.                           *)
(*                                                                         *)
(* Math.random().  A value returned by Math.random() is modelled by its    *)
(* numerator q in 0..3 over 4 (r = q/4).  Every function that draws        *)
(* random numbers takes the drawn values as an explicit argument, in the   *)
(* order of the calls in the code.  The environment (display refresh       *)
(* period, outcome pattern of the random source) is chosen in Init.        *)
(*                                                                         *)
(* Not modelled: the hero element (document.getElementById('hero') is      *)
(* taken to return null, so pulseHero returns at once and the shake block  *)
(* of loop is skipped), colour strings, and the pixels painted, except     *)
(* the geometry of the black hole (variable paint).                        *)
(***************************************************************************)
EXTENDS Integers, Sequences, FiniteSets, TLC

(* ------------------------------------------------------------------ *)
(* CONFIG (src/space.js 18-30) and other literals of the code          *)
(* ------------------------------------------------------------------ *)
maxStars == 250
maxMeteors == 6
meteorSpawnInterval == 800
maxMeteorTrail == 8
maxParticles == 180
burstCount == 140
maxDt == 48
emberWindow == 1200
maxLightnings == 6
offscreenMargin == 200
bigBangDelay == 800
NegInfinity == -100000000

(* units *)
PX == 16 * 100000
VU == 4 * 100

(* ------------------------------------------------------------------ *)
(* Bounds of the model                                                  *)
(* ------------------------------------------------------------------ *)
MaxClock == 2400
MaxEvents == 2

(* ------------------------------------------------------------------ *)
(* Utility helpers (src/space.js 33-41)                                 *)
(* ------------------------------------------------------------------ *)
Min(a, b) == IF a < b THEN a ELSE b
Max(a, b) == IF a > b THEN a ELSE b
Abs(a) == IF a < 0 THEN 0 - a ELSE a

(* Math.floor of the rational n/d, d > 0 (\div already rounds down). *)
Floor(n, d) == n \div d

(* rand(min, max) = Math.random()*(max-min)+min with Math.random() = q/4;
   min and max are given in the unit of the result; at every call site
   they differ by a multiple of 4, so the result is exact. *)
rand(q, min, max) == q * Floor(max - min, 4) + min

(* randInt(min, max) = Math.floor(rand(min, max + 1)) *)
randInt(q, min, max) == Floor(q * (max + 1 - min) + 4 * min, 4)

clamp(v, a, b) == Max(a, Min(b, v))

Reverse(s) == [i \in 1..Len(s) |-> s[Len(s) + 1 - i]]
Front(s) == SubSeq(s, 1, Len(s) - 1)
Last(s) == s[Len(s)]

(* ------------------------------------------------------------------ *)
(* Resize handling (src/space.js 58-76) and black hole gradient         *)
(* (src/space.js 107-117)                                               *)
(* ------------------------------------------------------------------ *)

(* createBlackHoleGradient(): the two circles of the radial gradient, in
   the coordinates handed to ctx.createRadialGradient (position units).
   r = min(width, height) * 0.12, inner radius r * 0.06. *)
createBlackHoleGradient(w, h, x, y) ==
  LET r == Min(w, h) * ((12 * PX) \div 100)
  IN  [x0 |-> x, y0 |-> y, r0 |-> (r \div 100) * 6,
       x1 |-> x, y1 |-> y, r1 |-> r]

(* resize().  The environment values read by the handler are the input
   env: rectW2/rectH2 = getBoundingClientRect() width/height in half
   pixels, innerW2/innerH2 = window.innerWidth/innerHeight in half pixels,
   dpr2 = window.devicePixelRatio in halves (0 when undefined).  DPR is
   kept in halves as well.  The context transform is the scale set by
   ctx.setTransform(DPR,0,0,DPR,0,0) with no translation. *)
resize(env) ==
  LET dpr   == Max(2, IF env.dpr2 = 0 THEN 2 ELSE env.dpr2)
      cssW2 == IF env.rectW2 = 0 THEN env.innerW2 ELSE env.rectW2
      cssH2 == IF env.rectH2 = 0 THEN env.innerH2 ELSE env.rectH2
      w     == Max(1, Floor(cssW2, 2))
      h     == Max(1, Floor(cssH2, 2))
      x     == (w * PX) \div 2
      y     == (h * PX) \div 2
  IN  [DPR |-> dpr, width |-> w, height |-> h,
       canvasW |-> Floor(w * dpr, 2), canvasH |-> Floor(h * dpr, 2),
       transform |-> [scale |-> dpr, tx |-> 0, ty |-> 0],
       cx |-> x, cy |-> y,
       blackHoleGradient |-> createBlackHoleGradient(w, h, x, y)]

(* ------------------------------------------------------------------ *)
(* Star system (src/space.js 90-105)                                    *)
(* ------------------------------------------------------------------ *)

(* initStars(): d[i] holds the six Math.random() values of star i.
   size and baseAlpha in thousandths, twinklePhase in quarter turns
   (r * 2*PI with r = q/4), twinkleSpeed in units of 1e-7 per ms. *)
initStars(w, h, d) ==
  [i \in 1..maxStars |->
     [x |-> d[i].x * ((w * PX) \div 4),
      y |-> d[i].y * ((h * PX) \div 4),
      size |-> (d[i].size * 1400) \div 4 + 200,
      baseAlpha |-> (d[i].baseAlpha * 800) \div 4 + 200,
      twinklePhase |-> d[i].twinklePhase,
      twinkleSpeed |-> ((d[i].twinkleSpeed * 8) \div 4 + 2) * 2500]]

(* ------------------------------------------------------------------ *)
(* Big Bang explosion particles (src/space.js 119-142)                  *)
(* ------------------------------------------------------------------ *)
cosTurn(q) == CASE q = 0 -> 1 [] q = 1 -> 0 [] q = 2 -> -1 [] OTHER -> 0
sinTurn(q) == CASE q = 0 -> 0 [] q = 1 -> 1 [] q = 2 -> 0 [] OTHER -> -1

(* One particle of the burst; d = the six random values in call order:
   angle, speed, life, size, hue, light.  angle = 2*PI*q/4, so cos and
   sin are exactly 0, 1 or -1.  uid is the identity of the new object and
   kind tells a burst particle from a flare particle; the code has neither. *)
burstParticle(x, y, d, uid) ==
  LET speed == rand(d.speed, 80 * VU, 480 * VU)
  IN  [uid |-> uid, kind |-> "burst", x |-> x, y |-> y,
       vx |-> (cosTurn(d.angle) * speed * 3) \div 4,
       vy |-> (sinTurn(d.angle) * speed * 3) \div 4,
       life |-> rand(d.life, 700, 1400),
       age |-> 0,
       size |-> (d.size * 2500) \div 4 + 600,
       hue |-> randInt(d.hue, 20, 60),
       light |-> randInt(d.light, 50, 70)]

(* triggerBigBang without particles.length = 0. *)
triggerBigBangKeep(old, x, y, d, uid0) ==
  old \o [i \in 1..Min(maxParticles, burstCount) |-> burstParticle(x, y, d[i], uid0 + i - 1)]

(* triggerBigBang(): the new contents of particles.  particles.length = 0
   drops every old particle, then count = min(maxParticles, 140) are
   pushed.  d[i] are the random values of the i-th particle. *)
triggerBigBang(old, x, y, d, uid0) ==
  LET count == Min(maxParticles, burstCount)
  IN  [i \in 1..count |-> burstParticle(x, y, d[i], uid0 + i - 1)]

(* The flare particle of src/space.js 434-439; d = the random values in
   call order: x, y, vx, vy, life, size, hue, light. *)
emberParticle(x, y, d, uid) ==
  [uid |-> uid, kind |-> "ember",
   x |-> x + rand(d.x, -20 * PX, 20 * PX),
   y |-> y + rand(d.y, -20 * PX, 20 * PX),
   vx |-> (rand(d.vx, -160 * VU, 160 * VU) * 3) \div 4,
   vy |-> (rand(d.vy, -180 * VU, 180 * VU) * 3) \div 4,
   life |-> rand(d.life, 200, 900),
   age |-> 0,
   size |-> rand(d.size, 600, 1600),
   hue |-> randInt(d.hue, 20, 50),
   light |-> randInt(d.light, 60, 80)]

(* A push that gives up the new ember when the collection is full. *)
pushEmberDropNewest(ps, e) ==
  LET pushed == Append(ps, e)
  IN  IF Len(pushed) > maxParticles THEN Front(pushed) ELSE pushed

(* particles.push(ember); if (particles.length > maxParticles) shift() *)
pushEmber(ps, e) ==
  LET pushed == Append(ps, e)
  IN  IF Len(pushed) > maxParticles THEN Tail(pushed) ELSE pushed

(* Math.random() < 0.2 with Math.random() = q/4 *)
emberChance(q) == 5 * q < 4

(* The ember test without the test of the time since the burst. *)
emberDueAlways(now, bbTime, d) == emberChance(d.chance)

(* if (now - bigBangTime < 1200) { if (Math.random() < 0.2) { ...
   (src/space.js 431-433) *)
emberDue(now, bbTime, d) == now - bbTime < emberWindow /\ emberChance(d.chance)

(* src/space.js 430-442: the ember block at the end of loop. *)
emberStep(ps, now, bbTime, x, y, d, uid) ==
  IF emberDue(now, bbTime, d)
    THEN pushEmber(ps, emberParticle(x, y, d, uid))
    ELSE ps

(* A particle step that moves the particle but does not age it. *)
stepParticleNoAge(p, dt) ==
  LET vy1 == p.vy + 81 * dt
  IN  [p EXCEPT !.vy = vy1,
                !.x = p.x + 3 * p.vx * dt,
                !.y = p.y + 3 * vy1 * dt]

(* drawParticles(dt) (src/space.js 281-306): one particle's step. *)
stepParticle(p, dt) ==
  LET vy1 == p.vy + 81 * dt
  IN  [p EXCEPT !.age = p.age + dt,
                !.vy = vy1,
                !.x = p.x + 3 * p.vx * dt,
                !.y = p.y + 3 * vy1 * dt]

(* The expiry test with > in place of >=. *)
particleExpiredLate(p, dt) == p.age + dt > p.life

particleExpired(p, dt) == p.age + dt >= p.life

(* The loop runs from the last index to the first and splices expired
   particles out; the others keep their order.  An expired particle is
   removed before it is integrated. *)
drawParticles(ps, dt) ==
  LET alive == SelectSeq(ps, LAMBDA p : ~particleExpired(p, dt))
  IN  [i \in 1..Len(alive) |-> stepParticle(alive[i], dt)]

(* ------------------------------------------------------------------ *)
(* Meteor system (src/space.js 153-193, 308-361)                        *)
(* ------------------------------------------------------------------ *)

(* Math.cos / Math.sin of angle = rand(PI*0.15, PI*0.35) for Math.random()
   = q/4, i.e. of 0.15*PI, 0.20*PI, 0.25*PI, 0.30*PI, times 900 * 0.75
   (CONFIG.timeScale) px/s, rounded to the velocity unit 1/400 px/s. *)
meteorCos(q) ==
  CASE q = 0 -> 240572 [] q = 1 -> 218435 [] q = 2 -> 190919 [] OTHER -> 158702
meteorSin(q) ==
  CASE q = 0 -> 122577 [] q = 1 -> 158702 [] q = 2 -> 190919 [] OTHER -> 218435

(* takeStorage that ignores the recycle pool and always allocates. *)
takeStorageFresh(pool, allocs) ==
  [m |-> [id |-> allocs + 1, gen |-> 0, x |-> 0, y |-> 0, vx |-> 0, vy |-> 0,
          life |-> 0, age |-> 0, trail |-> << >>, size |-> 2000, hue |-> 40],
   pool |-> pool, allocs |-> allocs + 1]

(* let m = meteorPool.pop(); if (!m) m = {...}: the storage the new meteor
   uses.  id is the identity of the storage object; a fresh object gets
   the next unused identity.  gen counts the meteors the object has held
   (it is not a field of the code). *)
takeStorage(pool, allocs) ==
  IF Len(pool) > 0
    THEN [m |-> Last(pool), pool |-> Front(pool), allocs |-> allocs]
    ELSE [m |-> [id |-> allocs + 1, gen |-> 0, x |-> 0, y |-> 0, vx |-> 0, vy |-> 0,
                 life |-> 0, age |-> 0, trail |-> << >>, size |-> 2000,
                 hue |-> 40],
          pool |-> pool, allocs |-> allocs + 1]

(* createMeteor's assignments without m.trail.length = 0: the spawn point
   is pushed onto whatever trail the storage holds. *)
spawnMeteorKeepTrail(m, w, h, d) ==
  LET above == 5 * d.side < 12
      dir   == IF 2 * d.dir < 4 THEN 1 ELSE -1
      left  == 2 * d.tb < 4
      sx    == IF above THEN rand(d.x, 0 - (w * PX) \div 5, ((w * PX) \div 5) * 6)
               ELSE IF left THEN -30 * PX ELSE (w + 30) * PX
      sy    == IF above THEN -20 * PX ELSE rand(d.y, 0, h * PX)
      svx   == IF above THEN meteorCos(d.angle) * dir
               ELSE IF left THEN (rand(d.vx, 600 * VU, 1100 * VU) * 3) \div 4
               ELSE 0 - (rand(d.vx, 600 * VU, 1100 * VU) * 3) \div 4
      svy   == IF above THEN meteorSin(d.angle)
               ELSE (rand(d.vy, -200 * VU, 200 * VU) * 3) \div 4
  IN  [m EXCEPT !.gen = @ + 1, !.x = sx, !.y = sy, !.vx = svx, !.vy = svy,
                !.life = rand(d.life, 900, 2200),
                !.age = 0,
                !.size = rand(d.size, 1000, 2600),
                !.hue = randInt(d.hue, 20, 45),
                !.trail = Append(m.trail, [x |-> sx, y |-> sy])]

(* The fields createMeteor assigns (src/space.js 164-191).  d = the random
   values in call order: side; then x, angle, dir (spawn from above) or
   tb, y, vx, vy (spawn from a side); then life, size, hue. *)
spawnMeteor(m, w, h, d) ==
  LET above == 5 * d.side < 12          \* Math.random() < 0.6
      dir   == IF 2 * d.dir < 4 THEN 1 ELSE -1
      left  == 2 * d.tb < 4             \* topOrBottom = Math.random() < 0.5
      sx    == IF above THEN rand(d.x, 0 - (w * PX) \div 5, ((w * PX) \div 5) * 6)
               ELSE IF left THEN -30 * PX ELSE (w + 30) * PX
      sy    == IF above THEN -20 * PX ELSE rand(d.y, 0, h * PX)
      svx   == IF above THEN meteorCos(d.angle) * dir
               ELSE IF left THEN (rand(d.vx, 600 * VU, 1100 * VU) * 3) \div 4
               ELSE 0 - (rand(d.vx, 600 * VU, 1100 * VU) * 3) \div 4
      svy   == IF above THEN meteorSin(d.angle)
               ELSE (rand(d.vy, -200 * VU, 200 * VU) * 3) \div 4
  IN  [m EXCEPT !.gen = @ + 1, !.x = sx, !.y = sy, !.vx = svx, !.vy = svy,
                !.life = rand(d.life, 900, 2200),
                !.age = 0,
                !.size = rand(d.size, 1000, 2600),
                !.hue = randInt(d.hue, 20, 45),
                !.trail = << [x |-> sx, y |-> sy] >>]

(* createMeteor without the maxMeteors guard of src/space.js 157. *)
createMeteorNoCap(live, pool, allocs, w, h, d) ==
  LET s == takeStorage(pool, allocs)
  IN  [live |-> Append(live, spawnMeteor(s.m, w, h, d)),
       pool |-> s.pool, allocs |-> s.allocs]

(* createMeteor(): the live collection, the recycle pool and the number of
   storage objects allocated so far, after the call. *)
createMeteor(live, pool, allocs, w, h, d) ==
  IF Len(live) >= maxMeteors
    THEN [live |-> live, pool |-> pool, allocs |-> allocs]
    ELSE LET s == takeStorage(pool, allocs)
         IN  [live |-> Append(live, spawnMeteor(s.m, w, h, d)),
              pool |-> s.pool, allocs |-> s.allocs]

(* dx*dx + dy*dy > 16 (px^2) for dx, dy in position units.  The squares do
   not fit 32 bits, so they are computed in three base-10000 limbs.  A
   component longer than 4 px decides the comparison at once. *)
distSqExceeds(dx, dy) ==
  LET lim == 4 * PX
      a   == Abs(dx)
      b   == Abs(dy)
  IN  IF a > lim \/ b > lim THEN TRUE
      ELSE LET a1 == a \div 10000
               a0 == a % 10000
               b1 == b \div 10000
               b0 == b % 10000
               lo == a0 * a0 + b0 * b0
               mi == 2 * a1 * a0 + 2 * b1 * b0 + lo \div 10000
               hi == a1 * a1 + b1 * b1 + mi \div 10000
               l1 == (lim \div 10000) * (lim \div 10000)
           IN  hi > l1 \/ (hi = l1 /\ (mi % 10000 > 0 \/ lo % 10000 > 0))

(* updateTrail without the shift of src/space.js 326. *)
updateTrailNoShift(trail, x, y) ==
  LET last == Last(trail)
  IN  IF distSqExceeds(x - last.x, y - last.y)
        THEN Append(trail, [x |-> x, y |-> y])
        ELSE [trail EXCEPT ![Len(trail)] = [x |-> x, y |-> y]]

(* updateTrail that pushes a point on every update. *)
updateTrailAlways(trail, x, y) ==
  LET pushed == Append(trail, [x |-> x, y |-> y])
  IN  IF Len(pushed) > maxMeteorTrail THEN Tail(pushed) ELSE pushed

(* src/space.js 320-330: push a trail point or move the last one. *)
updateTrail(trail, x, y) ==
  LET last == Last(trail)
  IN  IF distSqExceeds(x - last.x, y - last.y)
        THEN LET pushed == Append(trail, [x |-> x, y |-> y])
             IN  IF Len(pushed) > maxMeteorTrail THEN Tail(pushed) ELSE pushed
        ELSE [trail EXCEPT ![Len(trail)] = [x |-> x, y |-> y]]

(* src/space.js 314-330: age, gravity, position and trail of one meteor. *)
stepMeteor(m, dt) ==
  LET vy1 == m.vy + 90 * dt
      x1  == m.x + 3 * m.vx * dt
      y1  == m.y + 3 * vy1 * dt
  IN  [m EXCEPT !.age = m.age + dt, !.vy = vy1, !.x = x1, !.y = y1,
                !.trail = updateTrail(m.trail, x1, y1)]

(* The removal test without the life test. *)
meteorGoneNoLife(m, w, h) ==
  \/ m.x < (0 - offscreenMargin) * PX
  \/ m.x > (w + offscreenMargin) * PX
  \/ m.y > (h + offscreenMargin) * PX

(* The removal test without the test of the right edge. *)
meteorGoneNoRight(m, w, h) ==
  \/ m.age > m.life
  \/ m.x < (0 - offscreenMargin) * PX
  \/ m.y > (h + offscreenMargin) * PX

(* src/space.js 355: remove when off-screen or life over. *)
meteorGone(m, w, h) ==
  \/ m.age > m.life
  \/ m.x < (0 - offscreenMargin) * PX
  \/ m.x > (w + offscreenMargin) * PX
  \/ m.y > (h + offscreenMargin) * PX

(* drawMeteors(dt): every live meteor is stepped; the loop runs from the
   last index to the first, so removed meteors reach the pool in that
   order. *)
drawMeteors(live, pool, dt, w, h) ==
  LET stepped == [i \in 1..Len(live) |-> stepMeteor(live[i], dt)]
      gone    == SelectSeq(stepped, LAMBDA m : meteorGone(m, w, h))
  IN  [live |-> SelectSeq(stepped, LAMBDA m : ~meteorGone(m, w, h)),
       pool |-> pool \o Reverse(gone)]

(* ------------------------------------------------------------------ *)
(* Lightning (src/space.js 195-214, 363-388)                            *)
(* ------------------------------------------------------------------ *)

(* The points of a bolt.  d = the random values in call order: startX,
   startY, endY, segments, then per segment jx[i], jy[i]; life.  The
   quotient (endY - startY) / segments is rounded down to the position
   unit. *)
boltPoints(w, h, d) ==
  LET startX   == rand(d.startX, 0, w * PX)
      startY   == rand(d.startY, 0, (h * PX) \div 5)
      endY     == rand(d.endY, (h * PX) \div 5, ((h * PX) \div 5) * 4)
      segments == randInt(d.segments, 4, 8)
      stepY    == Floor(endY - startY, segments)
      pts[i \in 0..segments] ==
        IF i = 0 THEN [x |-> startX, y |-> startY]
        ELSE [x |-> pts[i - 1].x + rand(d.jx[i], -80 * PX, 80 * PX),
              y |-> pts[i - 1].y + stepY + rand(d.jy[i], -20 * PX, 40 * PX)]
  IN  [i \in 1..(segments + 1) |-> pts[i - 1]]

(* spawnLightning that drops the oldest bolt only if it has expired. *)
spawnLightningKeepFresh(bolts, w, h, d, uid) ==
  LET pushed == Append(bolts, [uid |-> uid, points |-> boltPoints(w, h, d),
                               age |-> 0, life |-> rand(d.life, 120, 260),
                               alpha |-> 1])
  IN  IF Len(pushed) > maxLightnings /\ pushed[1].age > pushed[1].life
        THEN Tail(pushed) ELSE pushed

(* spawnLightning(): push the bolt, drop the oldest when more than 6. *)
spawnLightning(bolts, w, h, d, uid) ==
  LET pushed == Append(bolts, [uid |-> uid, points |-> boltPoints(w, h, d),
                               age |-> 0, life |-> rand(d.life, 120, 260),
                               alpha |-> 1])
  IN  IF Len(pushed) > maxLightnings THEN Tail(pushed) ELSE pushed

(* Math.random() < lightningChancePerSecond * (clampedDt / 1000), with
   Math.random() = q/4 and lightningChancePerSecond = 0.6:
   q/4 < 6*dt/10000. *)
lightningChance(q, dt) == 10000 * q < 24 * dt

(* drawLightning(dt): age every bolt, remove it when age > life. *)
drawLightning(bolts, dt) ==
  LET aged == [i \in 1..Len(bolts) |-> [bolts[i] EXCEPT !.age = @ + dt]]
  IN  SelectSeq(aged, LAMBDA b : ~(b.age > b.life))

(* ------------------------------------------------------------------ *)
(* Black hole painting (src/space.js 259-279)                           *)
(* ------------------------------------------------------------------ *)

(* ctx.translate(dx, dy) on the transform (logical pixels, position
   units); the DPR scale is unchanged. *)
translate(t, dx, dy) == [t EXCEPT !.tx = @ + dx, !.ty = @ + dy]

(* A point of the current user space in surface (logical pixel)
   coordinates.  Paths and the coordinates of a gradient used as
   fillStyle both go through the transform in effect when fill() runs. *)
toSurface(t, x, y) == [x |-> x + t.tx, y |-> y + t.ty]

(* drawBlackHole(): what is painted, in surface coordinates: the glow
   arc, the centre and outer radius of the gradient that fills it, and
   the event-horizon disc.  ctx.restore() puts the transform back. *)
drawBlackHole(t0, x, y, w, h, g) ==
  LET t == translate(t0, x, y)
      r == Min(w, h) * ((12 * PX) \div 100)
  IN  [glowArc  |-> [c |-> toSurface(t, 0, 0), r |-> r],
       gradient |-> [c |-> toSurface(t, g.x1, g.y1), r |-> g.r1],
       disc     |-> [c |-> toSurface(t, 0, 0), r |-> (r \div 100) * 38]]

(* ------------------------------------------------------------------ *)
(* The environment: display, clock and random source                    *)
(* ------------------------------------------------------------------ *)

(* Display refresh periods (ms between animation frames). *)
Refreshes == {10, 25}

(* Outcome patterns of the random source.  Under luck 0 every
   Math.random() that decides a spawn returns 0; under luck 1 it returns
   0 on some frames only.  Magnitudes follow fixed patterns Q. *)
Lucks == {0, 1}

(* Timestamps at which the user or the host acts (resize, hide, manual
   trigger, a stall of the main thread). *)
EventTimes == {0, 500}

(* Lengths of a stall or of a pause of the page, ms. *)
StallTimes == {500}

(* What resize() reads from the page: see resize. *)
SurfaceEnvs ==
  { [rectW2 |-> 1601, rectH2 |-> 1200, innerW2 |-> 2048, innerH2 |-> 1536, dpr2 |-> 3],
    [rectW2 |-> 0, rectH2 |-> 0, innerW2 |-> 401, innerH2 |-> 600, dpr2 |-> 0],
    [rectW2 |-> 0, rectH2 |-> 0, innerW2 |-> 0, innerH2 |-> 0, dpr2 |-> 1] }

InitEnv == [rectW2 |-> 1601, rectH2 |-> 1200, innerW2 |-> 2048, innerH2 |-> 1536, dpr2 |-> 3]

(* The a-th random value of the k-th use of a call site, as q in 0..3. *)
Q(k, a) == ((k \div (a + 1)) + k * a) % 4

StarDraws ==
  [i \in 1..maxStars |->
     [x |-> Q(i, 0), y |-> Q(i, 1), size |-> Q(i, 2), baseAlpha |-> Q(i, 3),
      twinklePhase |-> Q(i, 4), twinkleSpeed |-> Q(i, 5)]]

BurstDraws(lk) ==
  [i \in 1..burstCount |->
     [angle |-> Q(i, 0), speed |-> Q(i, 1), life |-> Q(i + lk, 2), size |-> Q(i, 3),
      hue |-> Q(i, 4), light |-> Q(i, 5)]]

MeteorDraw(k) ==
  [side |-> Q(k, 0), x |-> Q(k, 1), angle |-> Q(k, 2), dir |-> Q(k, 3),
   tb |-> Q(k, 1), y |-> Q(k, 2), vx |-> Q(k, 3), vy |-> Q(k, 4),
   life |-> Q(k, 5), size |-> Q(k, 6), hue |-> Q(k, 7)]

BoltDraw(lk, k) ==
  [chance |-> IF lk = 0 \/ k % 3 = 0 THEN 0 ELSE 2,
   startX |-> Q(k, 0), startY |-> Q(k, 1), endY |-> Q(k, 2), segments |-> Q(k, 3),
   jx |-> [i \in 1..8 |-> Q(k + i, 1)], jy |-> [i \in 1..8 |-> Q(k + i, 2)],
   life |-> Q(k, 4)]

EmberDraw(lk, k) ==
  [chance |-> IF lk = 0 \/ k % 2 = 0 THEN 0 ELSE 1,
   x |-> Q(k, 0), y |-> Q(k, 1), vx |-> Q(k, 2), vy |-> Q(k, 3),
   life |-> IF lk = 0 THEN 3 ELSE Q(k, 1) % 2, size |-> Q(k, 4),
   hue |-> Q(k, 5), light |-> Q(k, 6)]

(* rand(200, CONFIG.meteorSpawnInterval) of src/space.js 400 *)
ThresholdDraw(lk) == IF lk = 0 THEN 0 ELSE 3

(* ------------------------------------------------------------------ *)
(* State                                                                *)
(* ------------------------------------------------------------------ *)
VARIABLES
  clock,             \* performance.now() and the timestamp of the current frame
  refresh, luck,     \* the environment chosen in Init
  events,            \* number of user/host events so far
  pendingFrames,     \* callbacks requested for the next animation frame
  batch,             \* callbacks of the current animation frame still to run
  bigBangTimer,      \* setTimeout(triggerBigBang, 800) is pending
  visible,           \* document.visibilityState === 'visible'
  DPR, width, height, canvasW, canvasH, transform, cx, cy, blackHoleGradient,
  running, lastTime, lastMeteorSpawn, bigBangTime,
  stars, particles, meteors, meteorPool, lightnings,
  meteorAllocs,      \* meteor storage objects allocated so far
  nextUid,           \* identity of the next particle or bolt object
  paint,             \* what the last tick painted for the black hole
  lastOp,            \* the operation that produced this state
  ticked,            \* the last frame callback ran the body of loop
  dtUsed,            \* clampedDt of the last tick
  refTime,           \* timestamp of the last tick, or of init or the resume after it
  unsimulated,       \* ms since the last burst that no tick integrated: cut off
                     \* by the clamp of dt (.clamp), spent paused (.pause)
  timer, blackHoleRadius,  \* src/script.js: frame counter, radius in 1/10 px
  drawn              \* src/script.js: the shapes the last animate() call drew

surfaceVars == <<DPR, width, height, canvasW, canvasH, transform, cx, cy, blackHoleGradient>>
envVars == <<refresh, luck>>
entityVars == <<stars, particles, meteors, meteorPool, lightnings, meteorAllocs, nextUid>>
timeVars == <<lastTime, lastMeteorSpawn, bigBangTime>>
scriptVars == <<timer, blackHoleRadius, drawn>>
vars == <<clock, refresh, luck, events, pendingFrames, batch, bigBangTimer, visible,
          DPR, width, height, canvasW, canvasH, transform, cx, cy, blackHoleGradient,
          running, lastTime, lastMeteorSpawn, bigBangTime,
          stars, particles, meteors, meteorPool, lightnings, meteorAllocs, nextUid,
          paint, lastOp, ticked, dtUsed, refTime, unsimulated,
          timer, blackHoleRadius, drawn>>

(* ------------------------------------------------------------------ *)
(* init() (src/space.js 224-234), after the declarations of the file    *)
(* ------------------------------------------------------------------ *)
Init ==
  /\ refresh \in Refreshes
  /\ luck \in Lucks
  /\ clock = 0
  /\ events = 0
  /\ LET s  == resize(InitEnv)
         m1 == createMeteor(<< >>, << >>, 0, s.width, s.height, MeteorDraw(0))
         m2 == createMeteor(m1.live, m1.pool, m1.allocs, s.width, s.height, MeteorDraw(1))
     IN  /\ DPR = s.DPR /\ width = s.width /\ height = s.height
         /\ canvasW = s.canvasW /\ canvasH = s.canvasH
         /\ transform = s.transform
         /\ cx = s.cx /\ cy = s.cy
         /\ blackHoleGradient = s.blackHoleGradient
         /\ stars = initStars(s.width, s.height, StarDraws)
         /\ meteors = m2.live /\ meteorPool = m2.pool /\ meteorAllocs = m2.allocs
  /\ particles = << >>
  /\ bigBangTime = NegInfinity
  /\ lightnings = << >>
  /\ nextUid = 1
  /\ visible \in BOOLEAN      \* the page may be loaded in a background tab
  /\ running = TRUE
  /\ lastMeteorSpawn = 0
  /\ bigBangTimer = TRUE
  /\ lastTime = 0
  /\ pendingFrames = 1
  /\ batch = 0
  /\ paint = << >>
  /\ lastOp = "init"
  /\ ticked = FALSE
  /\ dtUsed = 0
  /\ refTime = 0
  /\ unsimulated = [clamp |-> 0, pause |-> 0]
  /\ timer = 0
  /\ blackHoleRadius = 500
  /\ drawn = {}

(* The timer of init() is due: it runs before anything else does. *)
TimerDue == bigBangTimer /\ clock >= bigBangDelay

(* loop without the running test. *)
loopReturnsNever(run) == FALSE

(* loop without the clamp of dt. *)
clampDtNone(dt) == dt

(* if (!running) return;  (src/space.js 392) *)
loopReturns(run) == ~run

(* const clampedDt = Math.min(dt, 48);  (src/space.js 396) *)
clampDt(dt) == Min(dt, maxDt)

(* lastTime = performance.now() of the visibility handler (src/space.js 85) *)
resumeTime(now, old) == now

(* ------------------------------------------------------------------ *)
(* loop(now) (src/space.js 391-443): one animation frame callback       *)
(* ------------------------------------------------------------------ *)
Frame ==
  /\ pendingFrames + batch > 0
  /\ batch > 0 \/ ~TimerDue      \* the callbacks of one frame run back to back
  /\ visible \/ ~running        \* a page loaded hidden gets no frame until shown
  /\ LET newFrame == batch = 0
         now      == IF newFrame THEN clock + refresh ELSE clock
         queued   == IF newFrame THEN pendingFrames ELSE batch
         later    == IF newFrame THEN 0 ELSE pendingFrames
     IN  /\ now <= MaxClock
         /\ clock' = now
         /\ batch' = queued - 1
         /\ IF loopReturns(running)
              THEN /\ pendingFrames' = later
                   /\ ticked' = FALSE
                   /\ UNCHANGED <<timeVars, entityVars, paint, dtUsed, refTime,
                                  unsimulated>>
              ELSE LET k         == now \div refresh
                       dt        == now - lastTime
                       clampedDt == clampDt(dt)
                       spawn     == now - lastMeteorSpawn >
                                      rand(ThresholdDraw(luck), 200, meteorSpawnInterval)
                       c         == IF spawn
                                      THEN createMeteor(meteors, meteorPool, meteorAllocs,
                                                        width, height, MeteorDraw(k))
                                      ELSE [live |-> meteors, pool |-> meteorPool,
                                            allocs |-> meteorAllocs]
                       bd        == BoltDraw(luck, k)
                       strike    == lightningChance(bd.chance, clampedDt)
                       bolts1    == IF strike
                                      THEN spawnLightning(lightnings, width, height, bd, nextUid)
                                      ELSE lightnings
                       uidE      == IF strike THEN nextUid + 1 ELSE nextUid
                       parts1    == drawParticles(particles, clampedDt)
                       m         == drawMeteors(c.live, c.pool, clampedDt, width, height)
                       ed        == EmberDraw(luck, k)
                       flare     == emberDue(now, bigBangTime, ed)
                   IN  /\ pendingFrames' = later + 1
                       /\ lastTime' = now
                       /\ lastMeteorSpawn' = IF spawn THEN now ELSE lastMeteorSpawn
                       /\ paint' = << drawBlackHole(transform, cx, cy, width, height,
                                                    blackHoleGradient) >>
                       /\ particles' = emberStep(parts1, now, bigBangTime, cx, cy, ed, uidE)
                       /\ meteors' = m.live
                       /\ meteorPool' = m.pool
                       /\ meteorAllocs' = c.allocs
                       /\ lightnings' = drawLightning(bolts1, clampedDt)
                       /\ nextUid' = IF flare THEN uidE + 1 ELSE uidE
                       /\ ticked' = TRUE
                       /\ dtUsed' = clampedDt
                       /\ refTime' = now
                       /\ unsimulated' = [unsimulated EXCEPT !.clamp = @ + dt - clampedDt]
                       /\ UNCHANGED <<bigBangTime, stars>>
  /\ lastOp' = "frame"
  /\ UNCHANGED <<envVars, events, bigBangTimer, surfaceVars, running, visible, scriptVars>>

(* ------------------------------------------------------------------ *)
(* visibilitychange handler (src/space.js 82-88)                        *)
(* ------------------------------------------------------------------ *)
Hide ==
  /\ batch = 0 /\ ~TimerDue
  /\ visible
  /\ clock \in EventTimes /\ events < MaxEvents
  /\ events' = events + 1
  /\ visible' = FALSE
  /\ running' = visible'
  /\ lastOp' = "hide"
  /\ UNCHANGED <<clock, envVars, pendingFrames, batch, bigBangTimer, surfaceVars,
                 timeVars, entityVars, paint, ticked, dtUsed, refTime, unsimulated,
                 scriptVars>>

(* The event on a hidden page.  The handler does not look at the old value
   of running: a page that was loaded hidden still has running = true and
   the request of init() outstanding when it takes the resume branch.
   Showing a page that was hidden by Hide ends the event Hide counted;
   showing a page that was loaded hidden is an event of its own. *)
Show ==
  /\ batch = 0 /\ ~TimerDue
  /\ ~visible
  /\ running => events < MaxEvents
  /\ events' = IF running THEN events + 1 ELSE events
  /\ visible' = TRUE
  /\ running' = visible'
  /\ lastTime' = resumeTime(clock, lastTime)
  /\ pendingFrames' = pendingFrames + 1
  /\ lastOp' = "show"
  /\ refTime' = clock
  /\ unsimulated' = [unsimulated EXCEPT !.pause = @ + clock - lastTime]
  /\ UNCHANGED <<clock, envVars, batch, bigBangTimer, surfaceVars,
                 lastMeteorSpawn, bigBangTime, entityVars, paint, ticked, dtUsed,
                 scriptVars>>

(* A resize handler that also reseeds the star field for the new size. *)
ResizeReseed ==
  /\ batch = 0 /\ ~TimerDue
  /\ clock \in EventTimes /\ events < MaxEvents
  /\ events' = events + 1
  /\ \E env \in SurfaceEnvs :
       LET s == resize(env)
       IN  /\ s.width # width \/ s.height # height
           /\ DPR' = s.DPR /\ width' = s.width /\ height' = s.height
           /\ canvasW' = s.canvasW /\ canvasH' = s.canvasH
           /\ transform' = s.transform
           /\ cx' = s.cx /\ cy' = s.cy
           /\ blackHoleGradient' = s.blackHoleGradient
           /\ stars' = initStars(s.width, s.height, StarDraws)
  /\ lastOp' = "resize"
  /\ UNCHANGED <<clock, envVars, pendingFrames, batch, bigBangTimer, running, visible,
                 timeVars, particles, meteors, meteorPool, lightnings, meteorAllocs,
                 nextUid, paint, ticked, dtUsed, refTime, unsimulated, scriptVars>>

(* ------------------------------------------------------------------ *)
(* resize event (src/space.js 59-78)                                    *)
(* ------------------------------------------------------------------ *)
Resize ==
  /\ batch = 0 /\ ~TimerDue
  /\ clock \in EventTimes /\ events < MaxEvents
  /\ events' = events + 1
  /\ \E env \in SurfaceEnvs :
       LET s == resize(env)
       IN  /\ s.width # width \/ s.height # height
           /\ DPR' = s.DPR /\ width' = s.width /\ height' = s.height
           /\ canvasW' = s.canvasW /\ canvasH' = s.canvasH
           /\ transform' = s.transform
           /\ cx' = s.cx /\ cy' = s.cy
           /\ blackHoleGradient' = s.blackHoleGradient
  /\ lastOp' = "resize"
  /\ UNCHANGED <<clock, envVars, pendingFrames, batch, bigBangTimer, running, visible,
                 timeVars, entityVars, paint, ticked, dtUsed, refTime, unsimulated,
                 scriptVars>>

(* ------------------------------------------------------------------ *)
(* triggerBigBang: by the timer of init() or by window.spaceTriggerBigBang *)
(* ------------------------------------------------------------------ *)
BigBang ==
  /\ bigBangTime' = clock
  /\ particles' = triggerBigBang(particles, cx, cy, BurstDraws(luck), nextUid)
  /\ nextUid' = nextUid + Len(particles')
  /\ lastOp' = "bang"
  /\ unsimulated' = [clamp |-> 0, pause |-> 0]
  /\ UNCHANGED <<clock, envVars, pendingFrames, batch, surfaceVars, running, visible,
                 lastTime, lastMeteorSpawn, stars, meteors, meteorPool, lightnings,
                 meteorAllocs, paint, ticked, dtUsed, refTime, scriptVars>>

TimeoutBigBang ==
  /\ batch = 0
  /\ TimerDue
  /\ bigBangTimer' = FALSE
  /\ BigBang
  /\ UNCHANGED events

ManualBigBang ==
  /\ batch = 0 /\ ~TimerDue
  /\ clock \in EventTimes /\ events < MaxEvents
  /\ events' = events + 1
  /\ BigBang
  /\ UNCHANGED bigBangTimer

(* Time passes with no frame callback: the main thread stalls, or the
   page is hidden and the host runs no animation frames. *)
Stall ==
  /\ batch = 0 /\ ~TimerDue
  /\ clock \in EventTimes /\ events < MaxEvents
  /\ events' = events + 1
  /\ \E d \in StallTimes : clock + d <= MaxClock /\ clock' = clock + d
  /\ lastOp' = "stall"
  /\ UNCHANGED <<envVars, pendingFrames, batch, bigBangTimer, surfaceVars, running, visible,
                 timeVars, entityVars, paint, ticked, dtUsed, refTime, unsimulated,
                 scriptVars>>

Next ==
  \/ Frame
  \/ Hide
  \/ Show
  \/ Resize
  \/ TimeoutBigBang
  \/ ManualBigBang
  \/ Stall

Spec == Init /\ [][Next]_vars

(* ------------------------------------------------------------------ *)
(* src/script.js: the frame counter of the second animation            *)

explosionStart == 300    \* timer < 300, timer >= 300
explosionEnd   == 420    \* timer < 420, timer >= 420
cycleEnd       == 720    \* timer < 720
startRadius    == 500    \* blackHoleRadius = 50, in 1/10 px
firstGrowth    == 5      \* blackHoleRadius + 0.5
firstCap       == 800    \* Math.min(..., 80)
secondGrowth   == 3      \* blackHoleRadius + 0.3
secondCap      == 1000   \* Math.min(..., 100)

min(a, b) == IF a < b THEN a ELSE b

(* The branches of animate with the explosion running one frame longer. *)
scriptPhaseLate(t) ==
  IF t < explosionStart THEN "first"
  ELSE IF t >= explosionStart /\ t <= explosionEnd THEN "explosion"
  ELSE IF t > explosionEnd /\ t < cycleEnd THEN "second"
  ELSE "restart"

(* The branch of the if / else if chain of animate taken for the
   incremented counter t (src/script.js 81-92). *)
scriptPhase(t) ==
  IF t < explosionStart THEN "first"
  ELSE IF t >= explosionStart /\ t < explosionEnd THEN "explosion"
  ELSE IF t >= explosionEnd /\ t < cycleEnd THEN "second"
  ELSE "restart"

(* animate(): one call, the first one made when the script is loaded and
   every later one by requestAnimationFrame.  The stars it draws do not
   bear on the counter and are left out. *)
animate ==
  LET t  == timer + 1
      ph == scriptPhase(t)
  IN  /\ timer' = IF ph = "restart" THEN 0 ELSE t
      /\ blackHoleRadius' =
           CASE ph = "first"   -> min(blackHoleRadius + firstGrowth, firstCap)
             [] ph = "second"  -> min(blackHoleRadius + secondGrowth, secondCap)
             [] ph = "restart" -> startRadius
             [] OTHER          -> blackHoleRadius
      /\ drawn' =
           CASE ph = "first"     -> {"hole"}
             [] ph = "second"    -> {"hole"}
             [] ph = "explosion" -> {"explosion"}
             [] OTHER            -> {}
      /\ UNCHANGED <<clock, refresh, luck, events, pendingFrames, batch, bigBangTimer,
                     DPR, width, height, canvasW, canvasH, transform, cx, cy,
                     blackHoleGradient, running, visible, lastTime, lastMeteorSpawn,
                     bigBangTime, stars, particles, meteors, meteorPool, lightnings,
                     meteorAllocs, nextUid, paint, lastOp, ticked, dtUsed, refTime,
                     unsimulated>>

(* The script on its own: animate requests itself again in every call and
   nothing cancels the request, so the browser keeps calling it. *)
ScriptSpec == Init /\ [][animate]_vars /\ WF_vars(animate)

(* ENABLED Frame, written out: a callback is requested and, if it opens a
   new animation frame, the timer is not due first and the frame lies
   within the observed time. *)
FrameEnabled ==
  /\ pendingFrames + batch > 0
  /\ visible \/ ~running
  /\ batch > 0 \/ (~TimerDue /\ clock + refresh <= MaxClock)

(* The host keeps its promises: a requested animation frame callback is
   run (requestAnimationFrame, src/space.js 233, 393, 86) and the timer
   of init() fires (setTimeout, src/space.js 230).  The first conjunct is
   WF_vars(Frame) with ENABLED Frame written out as FrameEnabled; every
   Frame step sets lastOp to "frame" and changes clock or batch. *)
LiveSpec ==
  /\ Init /\ [][Next]_vars
  /\ ([]<>~FrameEnabled \/ []<><<lastOp' = "frame">>_vars)
  /\ WF_vars(TimeoutBigBang)

(* ------------------------------------------------------------------ *)
(* Properties                                                           *)
(* ------------------------------------------------------------------ *)

(* A tick: the step ran the body of loop. *)
Tick == lastOp' = "frame" /\ ticked'

(* The index in a of the object with uid u, 0 if there is none: a
   binary search, a being in increasing uid order (UidOrder). *)
RECURSIVE IndexOfUid(_, _, _, _)
IndexOfUid(a, u, lo, hi) ==
  IF lo > hi THEN 0
  ELSE LET mid == (lo + hi) \div 2
       IN  IF a[mid].uid = u THEN mid
           ELSE IF a[mid].uid < u THEN IndexOfUid(a, u, mid + 1, hi)
           ELSE IndexOfUid(a, u, lo, mid - 1)

(* Every object of a that is still in b has aged by exactly d there
   (exact), or has not become younger (~exact). *)
Matched(a, b, exact, d) ==
  \A j \in 1..Len(b) :
    LET i == IndexOfUid(a, b[j].uid, 1, Len(a))
    IN  i > 0 => IF exact THEN b[j].age = a[i].age + d ELSE b[j].age >= a[i].age

(* Objects are pushed in creation order and never reordered. *)
UidOrder ==
  /\ \A i \in 1..(Len(particles) - 1) : particles[i].uid < particles[i + 1].uid
  /\ \A i \in 1..(Len(lightnings) - 1) : lightnings[i].uid < lightnings[i + 1].uid
  /\ \A i \in 1..Len(particles) : particles[i].uid < nextUid
  /\ \A i \in 1..Len(lightnings) : lightnings[i].uid < nextUid

(* C1: after every operation the live meteor collection holds at most
   maxMeteors (6) meteors and the particle collection at most
   maxParticles (180) particles. *)
C1_PoolCaps ==
  /\ Len(meteors) <= maxMeteors
  /\ Len(particles) <= maxParticles

(* C1 witness: a tick that called createMeteor with 6 meteors live (the
   spawn timer was reset in this tick and no meteor is new) and that
   pushed an ember onto a full particle collection (the 140th slot
   already holds an ember, so burst particles have been shifted out). *)
C1_Witness ==
  /\ lastOp = "frame" /\ ticked /\ dtUsed > 0
  /\ Len(meteors) = maxMeteors
  /\ lastMeteorSpawn = clock
  /\ \A i \in 1..Len(meteors) : meteors[i].age > dtUsed
  /\ Len(particles) = maxParticles
  /\ Last(particles).age = 0
  /\ particles[burstCount].age < particles[1].age

(* No entity past its life is left in a collection. *)
NoExpired ==
  /\ \A i \in 1..Len(particles) : particles[i].age < particles[i].life
  /\ \A i \in 1..Len(meteors) : meteors[i].age <= meteors[i].life
  /\ \A i \in 1..Len(lightnings) : lightnings[i].age <= lightnings[i].life

(* Every entity that stays in its collection over a step keeps or raises
   its age. *)
AgesNeverDrop ==
  /\ Matched(particles, particles', FALSE, 0)
  /\ Matched(lightnings, lightnings', FALSE, 0)
  /\ \A i \in 1..Len(meteors) : \A j \in 1..Len(meteors') :
       meteors[i].id = meteors'[j].id => meteors'[j].age >= meteors[i].age

(* C2: the age of a particle, meteor or bolt never decreases while it
   stays in its collection, and in every state between operations (so at
   the start of every frame) no meteor or bolt has age > life and no
   particle has age >= life. *)
C2_Ages == []NoExpired /\ []UidOrder /\ [][AgesNeverDrop]_vars

(* C2 witness: a tick that removed expired entities of all three kinds is
   behind us: a meteor whose life was over lies in the recycle pool,
   burst particles are gone and bolts have been spawned and removed. *)
C2_Witness ==
  /\ lastOp = "frame" /\ ticked
  /\ \E i \in 1..Len(meteorPool) : meteorPool[i].age > meteorPool[i].life
  /\ bigBangTime >= 0 /\ Len(particles) > 0 /\ Len(particles) < burstCount
  /\ \E i \in 1..Len(particles) : particles[i].age + refresh = particles[i].life
  /\ Len(lightnings) > 0 /\ lightnings[1].uid > maxLightnings

(* C3: every live meteor has a trail of at least 1 and at most
   maxMeteorTrail (8) points, after createMeteor and after every update,
   also when its storage comes from the recycle pool. *)
C3_TrailBounds ==
  \A i \in 1..Len(meteors) :
    Len(meteors[i].trail) >= 1 /\ Len(meteors[i].trail) <= maxMeteorTrail

(* C3 witness: a meteor in reused storage whose trail is full, beside a
   meteor created in this tick. *)
C3_Witness ==
  /\ lastOp = "frame" /\ ticked
  /\ \E i \in 1..Len(meteors) :
       meteors[i].gen > 1 /\ Len(meteors[i].trail) = maxMeteorTrail
  /\ \E i \in 1..Len(meteors) : meteors[i].gen > 1 /\ meteors[i].age = dtUsed

(* A frame callback that fires while the loop is paused changes no
   simulation state and requests no frame. *)
PausedCallbackInert ==
  (lastOp' = "frame" /\ ~running) =>
     /\ UNCHANGED <<lastTime, lastMeteorSpawn, bigBangTime, stars, particles, meteors,
                    meteorPool, lightnings, paint>>
     /\ pendingFrames' + batch' = pendingFrames + batch - 1

(* C4: while paused no frame callback advances an age or a position,
   spawns or removes an entity, changes lastTime or requests another
   frame; and whenever the loop is running (so after every change to
   visible) a frame request is outstanding. *)
C4_Paused == [][PausedCallbackInert]_vars /\ [](running => pendingFrames + batch >= 1)

(* C4 witness: a callback has fired while the loop was paused, with
   entities live. *)
C4_Witness ==
  /\ lastOp = "frame" /\ ~running /\ ~ticked
  /\ Len(meteors) > 0 /\ Len(particles) > 0

(* C5 (as claimed): at most one frame callback request is outstanding at
   any time. *)
C5_SingleRequest == pendingFrames + batch <= 1

(* The ages of the entities kept over the step grow by exactly d. *)
AgesGrowBy(d) ==
  /\ Matched(particles, particles', TRUE, d)
  /\ Matched(lightnings, lightnings', TRUE, d)
  /\ \A i \in 1..Len(meteors) : \A j \in 1..Len(meteors') :
       meteors[i].id = meteors'[j].id => meteors'[j].age = meteors[i].age + d

(* A tick at timestamp clock' integrates min(clock' - refTime, 48) and
   leaves lastTime = clock'. *)
TickUsesClampedDt ==
  Tick =>
    /\ dtUsed' = Min(clock' - refTime, maxDt)
    /\ dtUsed' <= maxDt
    /\ lastTime' = clock'
    /\ AgesGrowBy(Min(clock' - refTime, maxDt))

(* C6: every tick integrates dt = min(now - lastTime, 48) and then holds
   lastTime = now, where lastTime is the timestamp of the previous tick
   or of the resume since (of init before the first tick): dt never
   exceeds 48 ms and time spent paused is not counted. *)
C6_ClampedDt == [][TickUsesClampedDt]_vars /\ [](lastTime = refTime)

(* C6 witness: a tick whose raw dt (a stalled frame, 500 ms and more) was
   clamped to 48, with meteors and particles live. *)
C6_Witness ==
  /\ lastOp = "frame" /\ ticked /\ dtUsed = maxDt
  /\ clock - maxDt > 0
  /\ \E i \in 1..Len(meteors) : meteors[i].age > maxDt
  /\ \E i \in 1..Len(particles) : particles[i].age = maxDt

(* A burst leaves exactly the new particles. *)
BurstReplaces ==
  lastOp' = "bang" =>
    /\ bigBangTime' = clock'
    /\ Len(particles') = Min(maxParticles, burstCount)
    /\ Len(particles') = burstCount
    /\ \A i \in 1..Len(particles') :
         /\ particles'[i].age = 0
         /\ particles'[i].life >= 700 /\ particles'[i].life <= 1400
         /\ particles'[i].x = cx' /\ particles'[i].y = cy'
         /\ particles'[i].uid >= nextUid

(* C7: triggerBigBang, in any state, sets the last-burst timestamp to the
   current time and leaves exactly min(maxParticles, 140) = 140 particles,
   all new, with age 0, life in [700, 1400] and position at the surface
   centre; no earlier particle survives. *)
C7_Burst == [][BurstReplaces]_vars /\ []UidOrder

(* C7 witness: a burst just triggered while the loop is paused, and one
   triggered after particles had been created before (the first uid of
   the burst is not the first uid handed out). *)
C7_Witness ==
  /\ lastOp = "bang"
  /\ particles[1].uid > burstCount
  /\ bigBangTime = clock /\ bigBangTime > 0

(* The trail of a meteor kept over a tick: pushed when the new position is
   more than 4 px from the last trail point, else its last point moved. *)
TrailStep(m, n) ==
  LET t    == m.trail
      last == Last(t)
      new  == [x |-> n.x, y |-> n.y]
      far  == distSqExceeds(n.x - last.x, n.y - last.y)
      grew == Append(t, new)
  IN  IF far
        THEN /\ n.trail = IF Len(grew) > maxMeteorTrail THEN Tail(grew) ELSE grew
             /\ distSqExceeds(Last(n.trail).x - n.trail[Len(n.trail) - 1].x,
                              Last(n.trail).y - n.trail[Len(n.trail) - 1].y)
        ELSE /\ Len(n.trail) = Len(t)
             /\ n.trail = [t EXCEPT ![Len(t)] = new]

TrailThrottled ==
  Tick =>
    \A i \in 1..Len(meteors) :
      /\ \A j \in 1..Len(meteors') :
           meteors'[j].id = meteors[i].id => TrailStep(meteors[i], meteors'[j])
      /\ \A j \in 1..Len(meteorPool') :
           meteorPool'[j].id = meteors[i].id => TrailStep(meteors[i], meteorPool'[j])

(* C8: in a meteor update a trail point is appended only when the squared
   distance between the new position and the last trail point exceeds 16;
   otherwise no point is added and the last point is overwritten with the
   new position.  Every appended point is farther than that from the
   point before it. *)
C8_Trail == [][TrailThrottled]_vars

(* C8 witness: a tick has left a meteor whose last trail point was moved
   (its trail is short although it is older than one frame) beside a
   meteor whose trail has grown. *)
C8_Witness ==
  /\ lastOp = "frame" /\ ticked /\ dtUsed > 0
  /\ \E i \in 1..Len(meteors) :
       /\ meteors[i].age > 3 * refresh
       /\ Len(meteors[i].trail) = 1
       /\ meteors[i].trail[1].x = meteors[i].x
  /\ \E i \in 1..Len(meteors) : Len(meteors[i].trail) = maxMeteorTrail

(* resize changes the surface only. *)
ResizeTouchesSurfaceOnly ==
  lastOp' = "resize" =>
    /\ UNCHANGED <<stars, particles, meteors, meteorPool, lightnings,
                   lastTime, lastMeteorSpawn, bigBangTime, running>>
    /\ width' >= 1 /\ height' >= 1
    /\ cx' = (width' * PX) \div 2 /\ cy' = (height' * PX) \div 2

(* C9: resize changes only the surface dimensions, centre, pixel-ratio
   scaling and gradient; stars, particles, meteors, recycle pool, bolts,
   lastTime, lastMeteorSpawn and the last-burst timestamp are unchanged,
   and the resulting width and height are >= 1. *)
C9_Resize == [][ResizeTouchesSurfaceOnly]_vars

(* C9 witness: a resize to the 1 x 1 minimum with entities in flight. *)
C9_Witness ==
  /\ lastOp = "resize" /\ width = 1 /\ height = 1
  /\ Len(meteors) > 0 /\ Len(particles) > 0 /\ Len(lightnings) > 0

(* C10 (as claimed): in every frame the glow gradient and the event
   horizon disc are centred at (width/2, height/2) in surface coordinates
   and the glow radius is 0.12 * min(width, height). *)
C10_BlackHoleCentred ==
  (lastOp = "frame" /\ ticked) =>
    /\ paint[1].gradient.c = [x |-> (width * PX) \div 2, y |-> (height * PX) \div 2]
    /\ paint[1].disc.c = [x |-> (width * PX) \div 2, y |-> (height * PX) \div 2]
    /\ paint[1].gradient.r = Min(width, height) * ((12 * PX) \div 100)
    /\ paint[1].glowArc.r = Min(width, height) * ((12 * PX) \div 100)

(* No further animation frame fits before the end of the observed time. *)
Horizon == clock + refresh > MaxClock

LiveId(i) == \E j \in 1..Len(meteors) : meteors[j].id = i
PoolId(i) == \E j \in 1..Len(meteorPool) : meteorPool[j].id = i

(* A live meteor is within its life, which is at most 2200 ms. *)
MeteorWithinLife ==
  \A i \in 1..Len(meteors) :
    meteors[i].age <= meteors[i].life /\ meteors[i].life <= 2200

(* A meteor that leaves the live collection is in the recycle pool, with
   the age that took it out or off-screen. *)
RemovedMeteorPooled ==
  \A i \in 1..Len(meteors) :
    LET id == meteors[i].id
    IN  (~\E j \in 1..Len(meteors') : meteors'[j].id = id) =>
          /\ Tick
          /\ \E j \in 1..Len(meteorPool') :
               /\ meteorPool'[j].id = id
               /\ meteorPool'[j].age = meteors[i].age + dtUsed'
               /\ meteorGone(meteorPool'[j], width, height)

(* C11: every meteor put in the live collection is eventually removed
   from it and its storage pushed to the recycle pool while frames keep
   running (the loop is not paused and the page is not hidden): it never stays past the frame in which its accumulated dt
   exceeds its life (at most 2200 ms, so less than 60 frames of 48 ms
   and more). *)
C11_MeteorRemoved ==
  /\ []MeteorWithinLife
  /\ [][RemovedMeteorPooled]_vars
  /\ \A i \in 1..maxMeteors :
       LiveId(i) ~> (PoolId(i) \/ ~running \/ ~visible \/ Horizon)

(* C11 witness: a tick has just pushed to the recycle pool a meteor whose
   age passed its life in this very frame. *)
C11_Witness ==
  /\ lastOp = "frame" /\ ticked /\ dtUsed > 0 /\ ~Horizon
  /\ \E j \in 1..Len(meteorPool) :
       /\ meteorPool[j].age > meteorPool[j].life
       /\ meteorPool[j].age - dtUsed <= meteorPool[j].life
       /\ meteorPool[j].y <= (height + offscreenMargin) * PX
       /\ meteorPool[j].x <= (width + offscreenMargin) * PX
       /\ meteorPool[j].x >= (0 - offscreenMargin) * PX

BurstParticles == SelectSeq(particles, LAMBDA p : p.kind = "burst")

(* C12 (as claimed): after a burst at t0 with no pause since, at the end
   of a frame with timestamp t0 + T or later every burst particle with
   life < T is gone, whatever the frame timestamps: the burst particles
   left at the end of a frame at time now have life >= now - t0. *)
C12_BurstGoneByWallTime ==
  (lastOp = "frame" /\ ticked /\ bigBangTime >= 0 /\ unsimulated.pause = 0) =>
    \A i \in 1..Len(particles) :
      particles[i].kind = "burst" => particles[i].life >= clock - bigBangTime

(* C12 (amended): a burst particle is gone once the dt accumulated since
   the burst reaches its life, and this dt is the time since the burst
   less what the 48 ms clamp cut off and what was spent paused.  So at the
   end of a frame at t0 + T or later every burst particle with
   life <= T - (time cut off or paused) is gone; with no pause and no gap
   of more than 48 ms between frames that is every particle with
   life <= T. *)
C12_BurstGoneBySimTime ==
  (lastOp = "frame" /\ ticked /\ bigBangTime >= 0) =>
    \A i \in 1..Len(particles) :
      particles[i].kind = "burst" =>
        /\ particles[i].age < particles[i].life
        /\ particles[i].age + unsimulated.clamp + unsimulated.pause
             >= clock - bigBangTime

(* C12 witness: 700 ms and more after a burst, with no time cut off or
   paused, some burst particles are gone and some are left. *)
C12_Witness ==
  /\ lastOp = "frame" /\ ticked /\ bigBangTime >= 0
  /\ unsimulated = [clamp |-> 0, pause |-> 0]
  /\ clock - bigBangTime >= 700
  /\ Len(BurstParticles) > 0 /\ Len(BurstParticles) < burstCount

(* C13 (as claimed): the star set always holds exactly maxStars (250)
   stars, and in every frame every star lies within the current surface,
   0 <= x <= width and 0 <= y <= height, also after a resize. *)
C13_StarsInBounds ==
  /\ Len(stars) = maxStars
  /\ (lastOp = "frame" /\ ticked) =>
       \A i \in 1..Len(stars) :
         /\ 0 <= stars[i].x /\ stars[i].x <= width * PX
         /\ 0 <= stars[i].y /\ stars[i].y <= height * PX

Uids(seq) == [i \in 1..Len(seq) |-> seq[i].uid]

(* From front to back no particle is older than the one before it. *)
AgeOrdered ==
  \A i \in 1..(Len(particles) - 1) : particles[i].age >= particles[i + 1].age

(* The tick created a bolt / an ember object. *)
BoltMade == \E j \in 1..Len(lightnings') : lightnings'[j].uid >= nextUid
EmberMade == nextUid' - nextUid = IF BoltMade THEN 2 ELSE 1

(* A tick keeps the particles that do not expire in it, in order; an
   ember goes to the back, and if that makes 181 the front one goes,
   which by UidOrder and AgeOrdered is the earliest created and no
   younger than any other. *)
EmberEvictsOldest ==
  Tick =>
    LET surv == SelectSeq(particles, LAMBDA p : p.age + dtUsed' < p.life)
    IN  IF EmberMade
          THEN /\ Len(particles') > 0
               /\ Last(particles').uid >= nextUid
               /\ Last(particles').kind = "ember" /\ Last(particles').age = 0
               /\ IF Len(surv) >= maxParticles
                    THEN /\ Len(particles') = maxParticles
                         /\ Uids(Front(particles')) = Tail(Uids(surv))
                    ELSE Uids(Front(particles')) = Uids(surv)
          ELSE Uids(particles') = Uids(surv)

(* C14: when a post-burst ember would raise the particle count above
   maxParticles (180), exactly one particle is removed, the new ember is
   kept, and the removed one is the earliest created particle, whose age
   is >= that of every other; the collection is always ordered by
   non-increasing age from front to back. *)
C14_EmberEviction == []AgeOrdered /\ []UidOrder /\ [][EmberEvictsOldest]_vars

(* C14 witness: a tick pushed an ember onto 180 particles: the collection
   is full, its last particle is the new ember, and the 140th is an
   ember although no burst particle can have expired yet. *)
C14_Witness ==
  /\ lastOp = "frame" /\ ticked
  /\ Len(particles) = maxParticles
  /\ Last(particles).kind = "ember" /\ Last(particles).age = 0
  /\ particles[1].kind = "burst" /\ particles[1].age < 700
  /\ particles[burstCount].kind = "ember"

(* A tick that spawns a bolt with 6 bolts present drops the first of them,
   whatever its age; then every bolt but those whose age now exceeds
   their life is kept, in order, the new bolt last. *)
BoltsCappedAndExpired ==
  Tick =>
    LET full == BoltMade /\ Len(lightnings) >= maxLightnings
        kept == IF full THEN Tail(lightnings) ELSE lightnings
        surv == SelectSeq(kept, LAMBDA b : b.age + dtUsed' <= b.life)
    IN  IF BoltMade
          THEN /\ Uids(Front(lightnings')) = Uids(surv)
               /\ Last(lightnings').age = dtUsed'
               /\ Last(lightnings').uid = nextUid
          ELSE Uids(lightnings') = Uids(surv)

(* C15: the lightning collection never holds more than 6 bolts: when
   spawnLightning makes the count 7 exactly the earliest spawned bolt is
   dropped, whatever its age, and the new bolt is kept; independently a
   bolt is removed in the frame in which its age first exceeds its life. *)
C15_Bolts ==
  /\ [](Len(lightnings) <= maxLightnings)
  /\ []UidOrder
  /\ [](\A i \in 1..Len(lightnings) : lightnings[i].age <= lightnings[i].life)
  /\ [][BoltsCappedAndExpired]_vars

(* C15 witness: six bolts, the last spawned in this tick, the first not
   the first bolt of the run and so young that the bolt spawned a frame
   before it cannot have expired (a life is at least 120 ms): that bolt
   was dropped by the cap. *)
C15_Witness ==
  /\ lastOp = "frame" /\ ticked /\ dtUsed > 0
  /\ bigBangTime = NegInfinity
  /\ Len(lightnings) = maxLightnings
  /\ Last(lightnings).age = dtUsed
  /\ lightnings[1].uid > 1
  /\ lightnings[1].age + refresh < 120

(* Within its life and within the margin around the current surface. *)
MeteorInPlay(m) ==
  /\ m.age <= m.life
  /\ (0 - offscreenMargin) * PX <= m.x /\ m.x <= (width + offscreenMargin) * PX
  /\ (0 - offscreenMargin) * PX <= m.y /\ m.y <= (height + offscreenMargin) * PX

LiveMeteorsInPlay ==
  (lastOp = "frame" /\ ticked) => \A i \in 1..Len(meteors) : MeteorInPlay(meteors[i])

(* No storage object is lost in a tick: a meteor that is not live after
   it is in the recycle pool. *)
MeteorsLiveOrPooled ==
  Tick => \A i \in 1..Len(meteors) :
            \/ \E j \in 1..Len(meteors') : meteors'[j].id = meteors[i].id
            \/ \E j \in 1..Len(meteorPool') : meteorPool'[j].id = meteors[i].id

(* C16: at the end of every frame every live meteor has age <= life and
   -200 <= x <= width + 200, -200 <= y <= height + 200 for the current
   width and height; a meteor that violates this in a frame is removed in
   that frame and pushed to the recycle pool. *)
C16_MeteorsInPlay == []LiveMeteorsInPlay /\ [][MeteorsLiveOrPooled]_vars

(* C16 witness: the first tick after a resize to a smaller surface has
   removed a meteor that was within its life but beyond the new right or
   bottom margin, and has kept another. *)
C16_Witness ==
  /\ lastOp = "frame" /\ ticked /\ width < 800
  /\ Len(meteors) > 0
  /\ \E j \in 1..Len(meteorPool) :
       /\ meteorPool[j].age <= meteorPool[j].life
       /\ meteorPool[j].x <= 900 * PX /\ meteorPool[j].x >= 0
       /\ meteorPool[j].y <= 700 * PX
       /\ \/ meteorPool[j].x > (width + offscreenMargin) * PX
          \/ meteorPool[j].y > (height + offscreenMargin) * PX

(* A meteor as createMeteor leaves it: age 0, one trail point, the spawn
   position, which is 20 px above the surface or 30 px beside it. *)
JustSpawned(m) ==
  /\ m.age = 0
  /\ m.trail = << [x |-> m.x, y |-> m.y] >>
  /\ m.y = -20 * PX \/ m.x = -30 * PX \/ m.x = (width + 30) * PX

(* createMeteor called in the current state, whatever the random values:
   nothing happens at the cap, else one meteor is added, just spawned,
   whatever its storage held before. *)
CreateMeteorPrimes ==
  /\ lastOp = "init" => \A i \in 1..Len(meteors) : JustSpawned(meteors[i])
  /\ \A k \in 0..7 :
       LET c == createMeteor(meteors, meteorPool, meteorAllocs, width, height,
                             MeteorDraw(k))
       IN  IF Len(meteors) >= maxMeteors
             THEN c.live = meteors /\ c.pool = meteorPool
             ELSE /\ Front(c.live) = meteors
                  /\ JustSpawned(Last(c.live))
                  /\ Len(meteorPool) > 0 =>
                       /\ Last(c.live).id = Last(meteorPool).id
                       /\ c.pool = Front(meteorPool)

(* A meteor that a tick has put in the live collection has been stepped
   once since createMeteor: its age is the dt of the tick and its trail
   is its position, preceded by the spawn position if that is more than
   4 px back. *)
NewMeteorFresh ==
  Tick =>
    \A j \in 1..Len(meteors') :
      LET m == meteors'[j]
      IN  (~\E i \in 1..Len(meteors) : meteors[i].id = m.id) =>
            /\ m.age = dtUsed'
            /\ Last(m.trail) = [x |-> m.x, y |-> m.y]
            /\ Len(m.trail) <= 2
            /\ Len(m.trail) = 2 =>
                 m.trail[1] = [x |-> m.x - 3 * m.vx * dtUsed',
                               y |-> m.y - 3 * m.vy * dtUsed']

(* C17: whenever createMeteor puts a meteor into the live collection, in
   fresh storage or in storage from the recycle pool, the meteor has
   age 0 and a trail of exactly one point, its spawn position; nothing of
   the previous life of the storage shows. *)
C17_MeteorPrimed == []CreateMeteorPrimes /\ [][NewMeteorFresh]_vars

(* C17 witness: a tick has put a meteor into reused storage (its second
   life or later) while the pool still holds a removed meteor with a
   full trail. *)
C17_Witness ==
  /\ lastOp = "frame" /\ ticked /\ dtUsed > 0
  /\ \E i \in 1..Len(meteors) :
       /\ meteors[i].gen > 1 /\ meteors[i].age = dtUsed
       /\ Len(meteors[i].trail) = 2
  /\ \E j \in 1..Len(meteorPool) :
       Len(meteorPool[j].trail) = maxMeteorTrail /\ meteorPool[j].age > 0

(* The particles of the next state that the step created. *)
NewParticles == {j \in 1..Len(particles') : particles'[j].uid >= nextUid}

(* Only a burst and a tick less than 1200 ms after a burst create
   particles, the tick at most one; nothing else makes the count grow. *)
ParticleSources ==
  (NewParticles # {} \/ Len(particles') > Len(particles)) =>
    \/ lastOp' = "bang"
    \/ /\ Tick
       /\ bigBangTime >= 0 /\ clock' - bigBangTime < emberWindow
       /\ Cardinality(NewParticles) = 1
       /\ Len(particles') <= Len(particles) + 1
       /\ \A j \in NewParticles : particles'[j].kind = "ember"

(* The ember window is over. *)
WindowOver == bigBangTime >= 0 /\ clock - bigBangTime >= emberWindow

(* C18: particles are created only by triggerBigBang or, at most one per
   frame, by a frame less than 1200 ms after the most recent burst; before
   the first burst there is no particle.  So once 1200 ms have passed
   since the last burst the count never grows, and while frames keep
   running the collection becomes empty, and stays empty until the next
   trigger. *)
C18_ParticleSources ==
  /\ [][ParticleSources]_vars
  /\ []UidOrder
  /\ [](bigBangTime = NegInfinity => particles = << >>)
  /\ WindowOver ~> (particles = << >> \/ ~WindowOver \/ ~running \/ Horizon)

(* C18 witness: frames still run, the ember window of the last burst is
   over and the collection has become empty. *)
C18_Witness ==
  /\ lastOp = "frame" /\ ticked /\ ~Horizon
  /\ WindowOver
  /\ particles = << >>
(* ------------------------------------------------------------------ *)
(* C19: meteor storage                                                 *)

MeteorIds == [i \in 1..(Len(meteors) + Len(meteorPool)) |->
                (meteors \o meteorPool)[i].id]

(* Every storage object allocated so far is in exactly one place: once in
   the live collection or once in the recycle pool. *)
StorageAccounted ==
  /\ Len(meteors) + Len(meteorPool) = meteorAllocs
  /\ meteorAllocs <= maxMeteors
  /\ \A i, j \in DOMAIN MeteorIds : MeteorIds[i] = MeteorIds[j] => i = j
  /\ \A i \in DOMAIN MeteorIds : MeteorIds[i] \in 1..meteorAllocs

(* A step allocates at most one storage object, and only when the recycle
   pool createMeteor looks at is empty. *)
FreshOnlyWhenPoolEmpty ==
  meteorAllocs' # meteorAllocs =>
    /\ meteorAllocs' = meteorAllocs + 1
    /\ meteorPool = << >>

(* C19: live meteors plus pooled meteors never exceed maxMeteors, no storage
   object is in both collections or twice in one, and fresh storage is
   allocated only when the recycle pool is empty, so at most maxMeteors
   objects are ever allocated. *)
C19_MeteorStorage == []StorageAccounted /\ [][FreshOnlyWhenPoolEmpty]_vars

(* All maxMeteors storage objects exist, a recycled one is live again and
   the pool holds others. *)
C19_Witness ==
  /\ meteorAllocs = maxMeteors
  /\ meteorPool # << >>
  /\ \E i \in 1..Len(meteors) : meteors[i].gen > 1
  /\ lastOp = "frame" /\ ticked

(* ------------------------------------------------------------------ *)
(* C20: the cycle of src/script.js                                     *)

ExplosionFrames == explosionStart..(explosionEnd - 1)
HoleFrames      == (1..(explosionStart - 1)) \cup (explosionEnd..(cycleEnd - 1))

(* After every call the counter is in 0..719, the radius within
   [50, 100] px, and what was drawn is decided by the counter alone. *)
ScriptCycleState ==
  /\ timer \in 0..(cycleEnd - 1)
  /\ blackHoleRadius \in startRadius..secondCap
  /\ Cardinality(drawn) <= 1
  /\ "explosion" \in drawn <=> timer \in ExplosionFrames
  /\ "hole" \in drawn <=> timer \in HoleFrames
  /\ timer = 0 => blackHoleRadius = startRadius /\ drawn = {}

(* Every call advances the counter by one modulo 720. *)
ScriptCycleStep == timer' = (timer + 1) % cycleEnd

(* C20: timer cycles with period 720 and is in 0..719 after every animate
   call; blackHoleRadius stays within [50, 100] and is 50 when the cycle
   restarts; the explosion is drawn exactly on the frames with timer in
   300..419, the black hole on those with timer in 1..299 and 420..719,
   never both in one frame; the explosion phase recurs infinitely often. *)
C20_ScriptCycle ==
  /\ []ScriptCycleState
  /\ [][ScriptCycleStep]_vars
  /\ []<>(drawn = {"explosion"})
  /\ []<>(timer = 0)

(* The last explosion frame of a cycle. *)
C20_Witness ==
  timer = explosionEnd - 1 /\ drawn = {"explosion"} /\ blackHoleRadius = firstCap

====
